---- MODULE Spec2Model ----
(***************************************************************************)
(* Model of the antithetic package: the pairing engine of                  *)
(* antithetic/base.py (AntitheticScalar), the distribution variants of     *)
(* antithetic/scalars.py (Normal, InverseCDF, Uniform, Exponential).       *)
(* and the correlation utility of antithetic/__init__.py.                  *)
(*                                                                         *)
(* Floats are fixed-point integers in units of 1/Scale.  The numpy          *)
(* Generator is a pair (seed, pos): the seed it was built from and the      *)
(* number of raw outputs of the bit stream consumed so far.  A normal draw  *)
(* consumes one raw output; a permutation of n items consumes n-1           *)
(* (Fisher-Yates).                                                          *)
(***************************************************************************)
EXTENDS Integers, Sequences, FiniteSets, TLC

VARIABLES
    alive,                           \* an object has been constructed
    cls,                             \* its class name
    raw_correlation,                 \* self.raw_correlation
    seed, pos,                       \* self.generator
    distributional_parameter_names,  \* self.distributional_parameter_names
    attrs,                           \* subclass attributes loc/scale/low/high
    have,                            \* self._AntitheticScalar__have
    hold,                            \* self._AntitheticScalar__hold, <<>> is None
    plain_have,                      \* instance attribute literally named "__have"
    ret,                             \* outcome of the last call
    last,                            \* the last call and its arguments
    pre,                             \* generator state when the last call began
    holdState,                       \* history of the value in hold
    run,                             \* get_next_raw_normal calls in a row since
                                     \* construction or set_seed, None once
                                     \* another call came between
    work,                            \* units of MaxWork spent on the object
    twin,                            \* a second object of the same class, built
                                     \* with the same arguments and given the
                                     \* same calls: its generator fields
    twin_attrs,                      \* the twin's loc/scale/low/high
    twin_ret,                        \* what the last call returned on the twin
    entropy,                         \* a source of either object was seeded
                                     \* with None (system entropy)
    fresh_alive,                     \* an object of the class, newly
                                     \* constructed with the parameters in
                                     \* place and the seed in use when the
                                     \* object was last seeded, exists: its
                                     \* constructor did not raise
    fresh,                           \* the generator fields of that object,
                                     \* given the same calls since
    fresh_attrs,                     \* its loc/scale/low/high
    fresh_ret,                       \* what the last call returned on it
    x_data, y_data,                  \* arguments of antithetic.correlation
    corr                             \* outcome of antithetic.correlation

objvars == <<alive, cls, raw_correlation, seed, pos,
             distributional_parameter_names, attrs, have, hold, plain_have,
             ret, last, pre, holdState, run, work, twin, twin_attrs,
             twin_ret, entropy, fresh_alive, fresh, fresh_attrs, fresh_ret>>
utilvars == <<x_data, y_data, corr>>
vars == <<objvars, utilvars>>

(***************************************************************************)
(* Bounds and input sets.                                                  *)
(***************************************************************************)
Scale == 100        \* fixed-point unit: the float 1.0
MaxSeed == 2        \* seeds are 1..MaxSeed
MaxN == 5           \* largest N passed to get_sequence_raw_normal
MaxWork == 5        \* calls explored on one object: get_next_raw_normal
                    \* counts one unit, every other call two
MaxLen == 3         \* longest flat list passed to antithetic.correlation

Seeds == 1..MaxSeed
None == <<>>
Some(v) == <<v>>
SeedArgs == {None} \cup {Some(s) : s \in Seeds}

\* raw correlations offered to the base class, Normal and direct assignment;
\* the last one is outside [-1, 1]
RawCorrelations == {-(3 * Scale) \div 5, Scale, (3 * Scale) \div 2}
Methods == {"zip", "shuffle", "concatenate"}

\* arguments (N, method, mix_singles) offered to get_sequence_raw_normal:
\* every N and method, mix_singles = False with "shuffle" and at the largest
\* N, and three invalid calls
SequenceArgs ==
    {<<N, method, TRUE>> : N \in 1..MaxN, method \in Methods}
    \cup {<<N, "shuffle", FALSE>> : N \in 1..MaxN}
    \cup {<<MaxN, method, FALSE>> : method \in Methods}
    \cup {<<0, "zip", TRUE>>, <<-1, "shuffle", FALSE>>, <<2, "bogus", TRUE>>}

(***************************************************************************)
(* The random source (numpy.random.Generator).                             *)
(***************************************************************************)
\* i-th raw output of the bit stream seeded with s
Raw(s, i) == ((s * 131 + 17) * (i * i * 31 + i * 57 + 101)) % 1009

\* standard normal drawn from raw output i, in units of 1/Scale, in [-3, 3]
NormalAt(s, i) == ((Raw(s, i) % 61) - 30) * (Scale \div 10)

\* generator.normal(size = 2) at position p
normal2(s, p) == <<NormalAt(s, p), NormalAt(s, p + 1)>>

\* generator.permutation(n) at position p: Fisher-Yates from the top index
\* down, one bounded integer per step; zero-based image as a sequence
Swap(a, i, j) == [a EXCEPT ![i] = a[j], ![j] = a[i]]
RECURSIVE Shuffle(_, _, _, _)
Shuffle(a, i, s, p) ==
    IF i < 1 THEN a
    ELSE Shuffle(Swap(a, i + 1, (Raw(s, p) % (i + 1)) + 1), i - 1, s, p + 1)
permutation(s, p, n) == Shuffle([k \in 1..n |-> k - 1], n - 1, s, p)
PermCost(n) == IF n > 1 THEN n - 1 ELSE 0

(***************************************************************************)
(* base.py                                                                 *)
(***************************************************************************)
\* np.sqrt on [0, 1], rounded down to the fixed-point unit
RECURSIVE Bisect(_, _, _)
Bisect(n, lo, hi) ==
    IF hi - lo <= 1 THEN lo
    ELSE LET mid == (lo + hi) \div 2
         IN IF mid * mid <= n THEN Bisect(n, mid, hi) ELSE Bisect(n, lo, mid)
ISqrt(n) == Bisect(n, 0, Scale + 1)

\* the range test of __init__, __setattr__, bivariate_covariance_matrix
ValidCorrelation(value) == -Scale <= value /\ value <= Scale

\* AntitheticScalar.mixing_weights
mixing_weights(rho) == <<rho, ISqrt(Scale * Scale - rho * rho)>>

\* np.sum(result*self.mixing_weights)
Mix(result, w) == (result[1] * w[1] + result[2] * w[2]) \div Scale

\* The generator fields that the drawing methods read and write.
Gen == [raw_correlation |-> raw_correlation, seed |-> seed, pos |-> pos,
        have |-> have, hold |-> hold]

\* get_next_raw_normal advancing the source by one draw per pair, so that the
\* second draw of a pair is the first draw of the next
get_next_raw_normal_overlapping(g) ==
    IF g.have
    THEN [g |-> [g EXCEPT !.have = FALSE], out |-> g.hold[1]]
    ELSE LET result == normal2(g.seed, g.pos)
         IN [g |-> [g EXCEPT !.pos = g.pos + 1,
                             !.hold = Some(Mix(result,
                                        mixing_weights(g.raw_correlation))),
                             !.have = TRUE],
             out |-> result[1]]

\* get_next_raw_normal returning the stored value without clearing the flag
get_next_raw_normal_keeping_flag(g) ==
    IF g.have
    THEN [g |-> g, out |-> g.hold[1]]
    ELSE LET result == normal2(g.seed, g.pos)
         IN [g |-> [g EXCEPT !.pos = g.pos + 2,
                             !.hold = Some(Mix(result,
                                        mixing_weights(g.raw_correlation))),
                             !.have = TRUE],
             out |-> result[1]]

\* AntitheticScalar.get_next_raw_normal on fields g: the fields afterwards
\* and the value returned
get_next_raw_normal(g) ==
    IF g.have
    THEN [g |-> [g EXCEPT !.have = FALSE], out |-> g.hold[1]]
    ELSE LET result == normal2(g.seed, g.pos)
         IN [g |-> [g EXCEPT !.pos = g.pos + 2,
                             !.hold = Some(Mix(result,
                                        mixing_weights(g.raw_correlation))),
                             !.have = TRUE],
             out |-> result[1]]

\* pairs = generator.normal(size = (M//2, 2)) followed by
\* pairs[:,1] = np.sum(pairs*self.mixing_weights, axis = 1)
InteriorPairs(g, M) ==
    LET w == mixing_weights(g.raw_correlation)
    IN [k \in 1..(M \div 2) |->
          LET result == normal2(g.seed, g.pos + 2 * (k - 1))
          IN <<result[1], Mix(result, w)>>]

\* flatten reading the pairs column by column
flatten_by_column(pairs) ==
    [i \in 1..(2 * Len(pairs)) |->
        IF i <= Len(pairs) THEN pairs[i][1] ELSE pairs[i - Len(pairs)][2]]

\* pairs.flatten(): row by row
flatten(pairs) ==
    [i \in 1..(2 * Len(pairs)) |-> pairs[(i + 1) \div 2][2 - (i % 2)]]

\* the transposed flatten repeating the first column in place of the second
Tflatten_first_column_twice(pairs) ==
    [i \in 1..(2 * Len(pairs)) |->
        IF i <= Len(pairs) THEN pairs[i][1] ELSE pairs[i - Len(pairs)][1]]

\* the transposed flatten reading the second column first
Tflatten_second_column_first(pairs) ==
    [i \in 1..(2 * Len(pairs)) |->
        IF i <= Len(pairs) THEN pairs[i][2] ELSE pairs[i - Len(pairs)][1]]

\* pairs.T.flatten(): first column, then second column
Tflatten(pairs) ==
    [i \in 1..(2 * Len(pairs)) |->
        IF i <= Len(pairs) THEN pairs[i][1] ELSE pairs[i - Len(pairs)][2]]

\* int(front_single), int(back_single)
int(b) == IF b THEN 1 ELSE 0

\* back_single computed from N alone
BackSingle_ignoring_front(N, front_single) == (N % 2) # 0

\* back_single = bool((N - int(front_single)) % 2)
BackSingle(N, front_single) == ((N - int(front_single)) % 2) # 0

\* values[lo:hi] = interior, on the one-based sequence values
SetSlice(values, lo, interior) ==
    [i \in DOMAIN values |->
        IF lo < i /\ i <= lo + Len(interior) THEN interior[i - lo]
        ELSE values[i]]

\* values[idx] for a zero-based index sequence idx
Take(values, idx) == [k \in DOMAIN idx |-> values[idx[k] + 1]]

\* the arrangement step shuffling all N values whatever mix_singles is
Arrange_mixing_always(values, pairs, N, f, b, method, mix_singles, s, p) ==
    IF method = "zip"
    THEN SetSlice(values, f, flatten(pairs))
    ELSE LET cat == SetSlice(values, f, Tflatten(pairs))
         IN IF method = "shuffle"
            THEN Take(cat, permutation(s, p, N))
            ELSE cat

\* the arrangement step of get_sequence_raw_normal (lines 244-256): values
\* holds the singles, pairs the interior pairs, p is the generator position
\* after all normal draws
Arrange(values, pairs, N, f, b, method, mix_singles, s, p) ==
    IF method = "zip"
    THEN SetSlice(values, f, flatten(pairs))
    ELSE LET cat == SetSlice(values, f, Tflatten(pairs))
             M == N - f - b
             idx == permutation(s, p, M)
         IN IF method = "shuffle"
            THEN IF mix_singles
                 THEN Take(cat, permutation(s, p, N))
                 ELSE SetSlice(cat, f,
                        Take(cat, [k \in 1..M |-> f + idx[k]]))
            ELSE cat

\* a permutation drawn whatever the method
ArrangeCost_every_method(N, M, method, mix_singles) ==
    IF mix_singles THEN PermCost(N) ELSE PermCost(M)

\* raw outputs consumed by the arrangement step
ArrangeCost(N, M, method, mix_singles) ==
    IF method = "shuffle"
    THEN IF mix_singles THEN PermCost(N) ELSE PermCost(M)
    ELSE 0

\* the guard letting N = 0 through
SequenceArgsInvalid_negative_only(N, method) == method \notin Methods \/ N < 0

\* the guard of lines 213-217
SequenceArgsInvalid(N, method) == method \notin Methods \/ N <= 0

\* get_sequence_raw_normal drawing N values one by one before it tests its
\* arguments
get_sequence_raw_normal_failing_late(g, N, method, mix_singles) ==
    LET r == get_next_raw_normal(g)
    IN IF SequenceArgsInvalid(N, method)
       THEN [kind |-> "ValueError", out |-> <<>>, g |-> r.g]
       ELSE [kind |-> IF N = 1 THEN "scalar" ELSE "array",
             out |-> [i \in 1..N |-> r.out], g |-> r.g]

\* AntitheticScalar.get_sequence_raw_normal on fields g: kind of outcome,
\* value returned and fields afterwards
get_sequence_raw_normal(g, N, method, mix_singles) ==
    IF SequenceArgsInvalid(N, method)
    THEN [kind |-> "ValueError", out |-> <<>>, g |-> g]
    ELSE IF N = 1
    THEN [kind |-> "scalar", out |-> <<get_next_raw_normal(g).out>>,
          g |-> get_next_raw_normal(g).g]
    ELSE
    LET front_single == g.have
        f == int(front_single)
        back_single == BackSingle(N, front_single)
        b == int(back_single)
        M == N - f - b
        zeros == [i \in 1..N |-> 0]
        v0 == IF front_single THEN [zeros EXCEPT ![1] = g.hold[1]] ELSE zeros
        pairs == InteriorPairs(g, M)
        result == normal2(g.seed, g.pos + M)
        v1 == IF back_single THEN [v0 EXCEPT ![N] = result[1]] ELSE v0
        p1 == g.pos + M + 2 * b
    IN [kind |-> "array",
        out |-> Arrange(v1, pairs, N, f, b, method, mix_singles, g.seed, p1),
        g |-> [g EXCEPT
                 !.have = back_single,
                 !.hold = IF back_single
                          THEN Some(Mix(result,
                                        mixing_weights(g.raw_correlation)))
                          ELSE g.hold,
                 !.pos = p1 + ArrangeCost(N, M, method, mix_singles)]]

\* N sequential get_next_raw_normal() calls on fields g: the fields
\* afterwards and the values returned, in order
RECURSIVE Sequential(_, _)
Sequential(g, N) ==
    IF N <= 0 THEN [g |-> g, out |-> <<>>]
    ELSE LET r == Sequential(g, N - 1)
             c == get_next_raw_normal(r.g)
         IN [g |-> c.g, out |-> Append(r.out, c.out)]

\* set_seed leaving the flag as it is
set_seed_keeping_flag(g, s) == [g EXCEPT !.seed = s, !.pos = 0]

\* AntitheticScalar.set_seed: a new generator, and the flag is cleared
set_seed(g, s) == [g EXCEPT !.seed = s, !.pos = 0, !.have = FALSE]

\* AntitheticScalar.__init__ lines 61-62: the constructor's range test
InitRejects(raw) == ~ValidCorrelation(raw)

\* AntitheticScalar.__init__ lines 66-71: the names list, with
\* "raw_correlation" appended
ParamNames(param_names) ==
    IF \E i \in DOMAIN param_names : param_names[i] = "raw_correlation"
    THEN param_names
    ELSE Append(param_names, "raw_correlation")

\* name in self.distributional_parameter_names
InNames(name, names) == \E i \in DOMAIN names : names[i] = name

\* the range test of __setattr__ with its upper bound left out
SetattrRejects_lower_only(name, value) ==
    name = "raw_correlation" /\ value < -Scale

\* AntitheticScalar.__setattr__ line 94: the assignment is refused
SetattrRejects(name, value) ==
    name = "raw_correlation" /\ ~ValidCorrelation(value)

\* AntitheticScalar.__setattr__ lines 101-103: for a distributional
\* parameter, super().__setattr__("__have", False) sets the instance
\* attribute whose name is the string "__have"; the flag the drawing methods
\* read is the class-private attribute _AntitheticScalar__have, which this
\* leaves as it is
SetattrPlainHave(name, names, ph) ==
    IF InNames(name, names) THEN Some(FALSE) ELSE ph

(***************************************************************************)
(* scalars.py                                                              *)
(***************************************************************************)
\* 2.0*np.sin(np.pi*correlation/6.0) for correlation a multiple of 1/2:
\* thousandths of 2*sin(k*pi/12), k = 0..6
TwoSinQuarter(k) ==
    CASE k = 0 -> 0 [] k = 1 -> 518 [] k = 2 -> 1000 [] k = 3 -> 1414
      [] k = 4 -> 1732 [] k = 5 -> 1932 [] k = 6 -> 2000
TwoSinHalf(k) == IF k <= 6 THEN TwoSinQuarter(k) ELSE TwoSinQuarter(12 - k)
TwoSinMilli(k) == IF k % 24 <= 12 THEN TwoSinHalf(k % 24)
                  ELSE -TwoSinHalf((k % 24) - 12)
Round(num, den) == (2 * num + den) \div (2 * den)
RawFromPublic(correlation) ==
    Round(TwoSinMilli((2 * correlation) \div Scale) * Scale, 1000)

\* 1.0/rate
Reciprocal(rate) == (Scale * Scale) \div rate

\* scale after lines 350-351: 1.0/rate when rate is given
EffectiveScale(scale, rate) ==
    IF rate # None THEN Reciprocal(rate[1]) ELSE scale

\* the checks of Exponential.__init__ with the scale tested first
Exponential_init_error_scale_first(scale, rate, corr_for_unif) ==
    IF rate # None /\ rate[1] = 0 THEN "ZeroDivisionError"
    ELSE IF EffectiveScale(scale, rate) <= 0 THEN "ValueError"
    ELSE IF ~corr_for_unif THEN "NotImplementedError"
    ELSE ""

\* the checks of Exponential.__init__ before it calls InverseCDF.__init__
\* (lines 345-353), in their order: the exception raised, "" for none
Exponential_init_error(scale, rate, corr_for_unif) ==
    IF ~corr_for_unif THEN "NotImplementedError"
    ELSE IF rate # None /\ rate[1] = 0 THEN "ZeroDivisionError"
    ELSE IF EffectiveScale(scale, rate) <= 0 THEN "ValueError"
    ELSE ""

\* min returning its first argument
min_first(a, b) == a

min(a, b) == IF a <= b THEN a ELSE b
max(a, b) == IF a >= b THEN a ELSE b

NoAttrs == [loc |-> None, scale |-> None, low |-> None, high |-> None]

\* Probabilities are carried in units of 1/UScale and logarithms in units of
\* 1/LogScale, so that the tails of the normal distribution keep their
\* digits through -log(1 - u).
UScale == 1000000000
LogScale == 10000

\* scipy.stats.norm.sf: NormSf[x + 1] is 1 - norm.cdf(x / Scale) in units of
\* 1/UScale for x = 0 .. MaxNormal, rounded to the unit.  The raw normals of
\* the source and their mixtures lie within 4.25 in absolute value.
MaxNormal == 450
NormSf ==
    <<500000000, 496010644, 492021686, 488033527, 484046563, 480061194,
      476077817, 472096830, 468118628, 464143607, 460172163, 456204687,
      452241574, 448283213, 444329995, 440382308, 436440537, 432505068,
      428576284, 424654565, 420740291, 416833837, 412935577, 409045885,
      405165128, 401293674, 397431887, 393580127, 389738752, 385908119,
      382088578, 378280478, 374484165, 370699981, 366928264, 363169349,
      359423567, 355691245, 351972708, 348268273, 344578258, 340902974,
      337242727, 333597821, 329968554, 326355220, 322758110, 319177509,
      315613697, 312066949, 308537539, 305025731, 301531788, 298055965,
      294598516, 291159687, 287739719, 284338849, 280957309, 277595325,
      274253118, 270930904, 267628893, 264347292, 261086300, 257846111,
      254626915, 251428895, 248252230, 245097094, 241963652, 238852068,
      235762498, 232695092, 229649997, 226627352, 223627292, 220649946,
      217695438, 214763884, 211855399, 208970088, 206108054, 203269392,
      200454193, 197662543, 194894521, 192150202, 189429655, 186732943,
      184060125, 181411255, 178786380, 176185542, 173608780, 171056126,
      168527607, 166023246, 163543059, 161087060, 158655254, 156247645,
      153864230, 151505003, 149169950, 146859056, 144572300, 142309654,
      140071090, 137856572, 135666061, 133499513, 131356881, 129238112,
      127143151, 125071936, 123024403, 121000484, 119000107, 117023196,
      115069670, 113139446, 111232437, 109348552, 107487697, 105649774,
      103834681, 102042315, 100272568, 98525329, 96800485, 95097918,
      93417509, 91759136, 90122672, 88507991, 86914962, 85343451, 83793322,
      82264439, 80756659, 79269841, 77803841, 76358510, 74933700, 73529260,
      72145037, 70780877, 69436623, 68112118, 66807201, 65521712, 64255488,
      63008364, 61780177, 60570758, 59379941, 58207556, 57053433, 55917403,
      54799292, 53698928, 52616138, 51550748, 50502583, 49471468, 48457226,
      47459682, 46478658, 45513977, 44565463, 43632937, 42716221, 41815138,
      40929509, 40059157, 39203903, 38363570, 37537980, 36726956, 35930319,
      35147894, 34379502, 33624969, 32884119, 32156775, 31442763, 30741909,
      30054039, 29378980, 28716560, 28066607, 27428950, 26803419, 26189845,
      25588060, 24997895, 24419185, 23851764, 23295468, 22750132, 22215594,
      21691694, 21178270, 20675163, 20182215, 19699270, 19226172, 18762766,
      18308900, 17864421, 17429178, 17003023, 16585807, 16177383, 15777607,
      15386335, 15003423, 14628731, 14262118, 13903448, 13552581, 13209384,
      12873721, 12545461, 12224473, 11910625, 11603792, 11303844, 11010658,
      10724110, 10444077, 10170439, 9903076, 9641870, 9386706, 9137468,
      8894043, 8656319, 8424186, 8197536, 7976260, 7760254, 7549411, 7343631,
      7142811, 6946851, 6755653, 6569119, 6387155, 6209665, 6036558, 5867742,
      5703126, 5542623, 5386146, 5233608, 5084926, 4940016, 4798797, 4661188,
      4527111, 4396488, 4269243, 4145301, 4024589, 3907033, 3792562, 3681108,
      3572601, 3466974, 3364160, 3264096, 3166716, 3071959, 2979763, 2890068,
      2802815, 2717945, 2635402, 2555130, 2477075, 2401182, 2327400, 2255677,
      2185961, 2118205, 2052359, 1988376, 1926209, 1865813, 1807144, 1750157,
      1694810, 1641061, 1588870, 1538195, 1488999, 1441242, 1394887, 1349898,
      1306238, 1263873, 1222769, 1182891, 1144207, 1106685, 1070294, 1035003,
      1000782, 967603, 935437, 904255, 874032, 844739, 816352, 788846,
      762195, 736375, 711364, 687138, 663675, 640953, 618951, 597648, 577025,
      557061, 537737, 519035, 500937, 483424, 466480, 450087, 434230, 418892,
      404058, 389712, 375841, 362429, 349463, 336929, 324814, 313106, 301791,
      290857, 280293, 270088, 260229, 250707, 241510, 232629, 224053, 215773,
      207780, 200064, 192616, 185427, 178491, 171797, 165339, 159109, 153099,
      147302, 141711, 136319, 131120, 126108, 121275, 116617, 112127, 107800,
      103630, 99611, 95740, 92010, 88417, 84957, 81624, 78414, 75324, 72348,
      69483, 66726, 64072, 61517, 59059, 56694, 54418, 52228, 50122, 48096,
      46148, 44274, 42473, 40741, 39076, 37475, 35936, 34458, 33037, 31671,
      30359, 29099, 27888, 26726, 25609, 24536, 23507, 22518, 21569, 20658,
      19783, 18944, 18138, 17365, 16624, 15912, 15230, 14575, 13948, 13346,
      12769, 12215, 11685, 11176, 10689, 10221, 9774, 9345, 8934, 8540, 8163,
      7801, 7455, 7124, 6807, 6503, 6212, 5934, 5668, 5413, 5169, 4935, 4712,
      4498, 4294, 4098, 3911, 3732, 3561, 3398>>

\* scipy.stats.norm.cdf of x / Scale, in units of 1/UScale
norm_cdf(x) ==
    LET tail == IF x >= 0 THEN x ELSE -x
        sf == NormSf[(IF tail <= MaxNormal THEN tail ELSE MaxNormal) + 1]
    IN IF x >= 0 THEN UScale - sf ELSE sf

\* np.log of v / UScale for 0 < v <= UScale, in units of 1/LogScale: with
\* v = m * 2^k and 1 <= m < 2, log v = k log 2 + 2 artanh((m - 1)/(m + 1)),
\* the mantissa kept to 16 binary digits and the series to its 7th power
np_log(v) ==
    LET k == CHOOSE e \in 0..29 : 2^e <= v /\ v < 2^(e + 1)
        m == IF k >= 16 THEN v \div 2^(k - 16) ELSE v * 2^(16 - k)
        t == ((m - 65536) * LogScale) \div (m + 65536)
        t2 == (t * t) \div LogScale
        t3 == (t * t2) \div LogScale
        t5 == (t3 * t2) \div LogScale
        t7 == (t5 * t2) \div LogScale
        log_of_2 == 693147
        log_of_UScale == 207233
    IN (k * log_of_2) \div 100
         + 2 * (t + t3 \div 3 + t5 \div 5 + t7 \div 7)
         - log_of_UScale

\* np.log(1.0 - u) for u in units of 1/UScale, in units of 1/LogScale
log1m(u) == np_log(UScale - u)

\* x / d rounded to the nearest whole number, d > 0
Rounded(x, d) == (2 * x + d) \div (2 * d)

\* 6.0*np.arcsin(0.5*raw)/np.pi for raw = 0 .. 1, rounded to the unit
ArcsinSixOverPi ==
    <<0, 1, 2, 3, 4, 5, 6, 7, 8, 9, 10, 11, 11, 12, 13, 14, 15, 16, 17, 18,
      19, 20, 21, 22, 23, 24, 25, 26, 27, 28, 29, 30, 31, 32, 33, 34, 35,
      36, 37, 37, 38, 39, 40, 41, 42, 43, 44, 45, 46, 47, 48, 49, 50, 51,
      52, 53, 54, 55, 56, 57, 58, 59, 60, 61, 62, 63, 64, 65, 66, 67, 68,
      69, 70, 71, 72, 73, 74, 75, 77, 78, 79, 80, 81, 82, 83, 84, 85, 86,
      87, 88, 89, 90, 91, 92, 93, 95, 96, 97, 98, 99, 100>>

\* the property taking the raw correlation for the public one
Uniform_correlation_identity(raw) == raw

\* Uniform.correlation (the property, lines 291-293)
Uniform_correlation(raw) ==
    IF raw >= 0 THEN ArcsinSixOverPi[raw + 1] ELSE -ArcsinSixOverPi[1 - raw]

\* Uniform.inverse_CDF, u in units of 1/UScale
Uniform_inverse_CDF(u, low, high) ==
    low + ((high - low) * (u \div 1000)) \div (UScale \div 1000)

\* Exponential.inverse_CDF, u in units of 1/UScale
Exponential_inverse_CDF(u, loc, scale) ==
    loc - Rounded(scale * log1m(u), LogScale)

\* the marginal transform of class c with attributes a applied to one raw
\* normal: Normal.get_next line 72, InverseCDF.get_next lines 167-173 with
\* func the identity for a plain InverseCDF
Transform(c, a, raw_normal_value) ==
    CASE c = "Normal" ->
           (a.scale[1] * raw_normal_value) \div Scale + a.loc[1]
      [] c = "InverseCDF" ->
           norm_cdf(raw_normal_value) \div (UScale \div Scale)
      [] c = "Uniform" ->
           Uniform_inverse_CDF(norm_cdf(raw_normal_value),
                               a.low[1], a.high[1])
      [] c = "Exponential" ->
           Exponential_inverse_CDF(norm_cdf(raw_normal_value),
                                   a.loc[1], a.scale[1])

\* get_next of Normal and InverseCDF on fields g
get_next(c, a, g) ==
    LET r == get_next_raw_normal(g)
    IN [g |-> r.g, out |-> Transform(c, a, r.out)]

\* get_sequence of Normal and InverseCDF on fields g
get_sequence(c, a, g, N, method, mix_singles) ==
    LET r == get_sequence_raw_normal(g, N, method, mix_singles)
    IN [kind |-> r.kind,
        out |-> [i \in DOMAIN r.out |-> Transform(c, a, r.out[i])],
        g |-> r.g]

(***************************************************************************)
(* __init__.py: the correlation utility.  An array_like is a sequence of   *)
(* rows; a flat list is one row.  Data values are whole numbers and the    *)
(* result is in units of 1/Scale.                                          *)
(***************************************************************************)
\* np_array(data).flatten()
RECURSIVE Flat(_)
Flat(rows) == IF rows = <<>> THEN <<>> ELSE Head(rows) \o Flat(Tail(rows))

RECURSIVE Sum(_)
Sum(a) == IF a = <<>> THEN 0 ELSE Head(a) + Sum(Tail(a))

\* the size test comparing the numbers of rows
SizesDiffer_by_rows(x_rows, y_rows) == Len(x_rows) # Len(y_rows)

\* x.size != y.size (line 48)
SizesDiffer(x_rows, y_rows) == Len(Flat(x_rows)) # Len(Flat(y_rows))

\* lines 50-54 on equal-sized flat x and y, in exact arithmetic on the
\* deviations scaled by the size, rounded down to the unit at the end; the
\* quotient 0/0 of constant or empty data is nan
Pearson(x, y) ==
    LET n == Len(x)
        dx == [i \in DOMAIN x |-> n * x[i] - Sum(x)]
        dy == [i \in DOMAIN y |-> n * y[i] - Sum(y)]
        s2x == Sum([i \in DOMAIN x |-> dx[i] * dx[i]])
        s2y == Sum([i \in DOMAIN y |-> dy[i] * dy[i]])
        sxy == Sum([i \in DOMAIN x |-> dx[i] * dy[i]])
    IN IF s2x * s2y = 0 THEN [kind |-> "nan", out |-> <<>>]
       ELSE LET r == ISqrt((sxy * sxy * Scale * Scale) \div (s2x * s2y))
            IN [kind |-> "scalar", out |-> <<IF sxy < 0 THEN -r ELSE r>>]

\* antithetic.correlation(x_data, y_data)
antithetic_correlation(x_rows, y_rows) ==
    IF SizesDiffer(x_rows, y_rows)
    THEN [kind |-> "ValueError", out |-> <<>>]
    ELSE Pearson(Flat(x_rows), Flat(y_rows))

(***************************************************************************)
(* Inputs of the operations.                                               *)
(***************************************************************************)
\* public correlations offered to InverseCDF, Uniform and Exponential; the
\* last two are outside [-1, 1]
PublicCorrelations == {-Scale, Scale \div 2, 2 * Scale, 6 * Scale}
\* correlations offered to Uniform.change_correlation
NewCorrelations == PublicCorrelations \cup {-(Scale \div 2), 0, Scale}
LocArgs == {0}
ScaleArgs == {0, Scale}
BoundArgs == {0, Scale}
RateArgs == {None, Some(0), Some(2 * Scale)}
AssignedValues == {2 * Scale, -Scale}
\* the assignments offered: 2.0 to loc, low and high, -1.0 to scale
ParameterAssignments ==
    {<<name, value>> \in {"loc", "scale", "low", "high"} \X AssignedValues :
        (name = "scale") <=> (value < 0)}
\* arguments (N, method, mix_singles) offered to get_sequence
PublicSequenceArgs ==
    {<<2, "zip", TRUE>>, <<3, "shuffle", TRUE>>, <<MaxN, "concatenate", TRUE>>,
     <<0, "zip", TRUE>>, <<-1, "shuffle", FALSE>>, <<2, "bogus", TRUE>>}
\* arguments offered to antithetic.correlation: flat lists of up to MaxLen
\* values and 2-by-2 nested lists
DataValues == 1..3
Arrays ==
    {<<row>> : row \in UNION {[1..n -> DataValues] : n \in 0..MaxLen}}
    \cup {<<r1, r2>> : r1 \in [1..2 -> {1, 2}], r2 \in [1..2 -> {1, 2}]}
CtorSeedArgs == {Some(1)}
\* numpy.random.default_rng(seed): the seeds the source may be built from;
\* when the argument is None the seed comes from system entropy, for which
\* the first and the last seed stand
SeedChoices(arg) == IF arg = None THEN {1, MaxSeed} ELSE {arg[1]}

\* the seed keyword left at its default by the subclasses' calls of
\* super().__init__
rng_seed_default_in_subclass(c, arg) ==
    IF c \in {"AntitheticScalar", "set_seed"} THEN arg ELSE None

\* what reaches np.random.default_rng when c, a constructor or set_seed, is
\* called with the seed argument arg: AntitheticScalar.__init__ and set_seed
\* hand their seed on, and every subclass hands its seed to super().__init__
rng_seed(c, arg) == arg

\* the keyword arguments of a constructor call besides correlation and seed
NoParams == [loc |-> None, scale |-> None, low |-> None, high |-> None,
             rate |-> None]
Call(op, N, method, mix_singles, name, value) ==
    [op |-> op, N |-> N, method |-> method, mix_singles |-> mix_singles,
     name |-> name, value |-> value, params |-> NoParams]
\* the generator fields and the history of hold when a call begins
Snapshot == [raw_correlation |-> raw_correlation, seed |-> seed, pos |-> pos,
             have |-> have, hold |-> hold, holdState |-> holdState,
             attrs |-> attrs, plain_have |-> plain_have]
NoCall == Call("", 0, "", FALSE, "", 0)
Outcome(kind, out) == [kind |-> kind, out |-> out]

Init ==
    /\ alive = FALSE
    /\ cls = ""
    /\ raw_correlation = 0
    /\ seed = 0
    /\ pos = 0
    /\ distributional_parameter_names = <<>>
    /\ attrs = NoAttrs
    /\ have = FALSE
    /\ hold = None
    /\ plain_have = None
    /\ ret = Outcome("", <<>>)
    /\ last = NoCall
    /\ holdState = "none"
    /\ pre = Snapshot
    /\ run = None
    /\ work = 0
    /\ twin = Gen
    /\ twin_attrs = NoAttrs
    /\ twin_ret = ret
    /\ entropy = FALSE
    /\ fresh_alive = FALSE
    /\ fresh = Gen
    /\ fresh_attrs = NoAttrs
    /\ fresh_ret = ret
    /\ x_data = <<>>
    /\ y_data = <<>>
    /\ corr = Outcome("", <<>>)

\* the exception the constructor of class c raises for the marginal
\* parameters a, "" for none: Normal.__init__ and Exponential.__init__ test
\* the scale, Uniform.__init__ tests low == high
ConstructorError(c, a) ==
    CASE c = "Normal" -> IF a.scale[1] <= 0 THEN "ValueError" ELSE ""
      [] c = "Exponential" -> Exponential_init_error(a.scale[1], None, TRUE)
      [] c = "Uniform" -> IF a.low[1] = a.high[1] THEN "ValueError" ELSE ""
      [] OTHER -> ""

\* the marginal parameters the constructor of class c stores when it is
\* given a: Uniform.__init__ puts the bounds in order
ConstructorAttrs(c, a) ==
    IF c = "Uniform"
    THEN [a EXCEPT !.low = Some(min(a.low[1], a.high[1])),
                   !.high = Some(max(a.low[1], a.high[1]))]
    ELSE a

\* no object
NoGen == [raw_correlation |-> 0, seed |-> 0, pos |-> 0, have |-> FALSE,
          hold |-> None]

\* the generator fields AntitheticScalar.__init__ leaves (lines 63-74)
FreshGen(raw, s) ==
    [raw_correlation |-> raw, seed |-> s, pos |-> 0, have |-> FALSE,
     hold |-> None]

\* a constructor raised: no object
Raise(kind, call) ==
    /\ ret' = Outcome(kind, <<>>)
    /\ last' = call
    /\ pre' = Snapshot
    /\ twin_ret' = Outcome(kind, <<>>)
    /\ fresh_ret' = Outcome(kind, <<>>)
    /\ UNCHANGED <<alive, cls, raw_correlation, seed, pos,
                   distributional_parameter_names, attrs, have, hold,
                   plain_have, holdState, run, work, twin, twin_attrs,
                   entropy, fresh_alive, fresh, fresh_attrs>>
    /\ UNCHANGED utilvars

\* AntitheticScalar.__init__ (lines 61-74), reached from class c with the
\* subclass attributes a already set; arg is the seed argument and s the seed
\* of the source built from it
BaseInit(c, raw, arg, s, param_names, a, call) ==
    IF InitRejects(raw)
    THEN Raise("ValueError", call)
    ELSE /\ alive' = TRUE
         /\ cls' = c
         /\ raw_correlation' = raw
         /\ seed' = s
         /\ pos' = 0
         /\ distributional_parameter_names' = ParamNames(param_names)
         /\ attrs' = a
         /\ have' = FALSE
         /\ hold' = None
         /\ plain_have' = None
         /\ ret' = Outcome("constructed", <<>>)
         /\ last' = call
         /\ pre' = Snapshot
         /\ holdState' = "none"
         /\ run' = Some(0)
         /\ work' = 0
         /\ \E s2 \in SeedChoices(rng_seed(c, arg)) :
              twin' = [raw_correlation |-> raw, seed |-> s2, pos |-> 0,
                       have |-> FALSE, hold |-> None]
         /\ twin_attrs' = a
         /\ twin_ret' = Outcome("constructed", <<>>)
         /\ entropy' = (arg = None)
         /\ fresh_alive' = TRUE
         /\ fresh' = FreshGen(raw, s)
         /\ fresh_attrs' = a
         /\ fresh_ret' = Outcome("constructed", <<>>)
         /\ UNCHANGED utilvars

\* AntitheticScalar(raw_correlation, seed)
NewAntitheticScalar ==
    /\ ~alive
    /\ \E raw \in RawCorrelations, arg \in CtorSeedArgs :
         \E s \in SeedChoices(rng_seed("AntitheticScalar", arg)) :
           BaseInit("AntitheticScalar", raw, arg, s, <<>>, NoAttrs,
                    Call("AntitheticScalar", 0, "", FALSE, "", raw))

\* Normal(correlation, loc, scale, seed)
NewNormal ==
    /\ ~alive
    /\ \E correlation \in RawCorrelations, loc \in LocArgs,
          scale \in ScaleArgs, arg \in CtorSeedArgs :
         \E s \in SeedChoices(rng_seed("Normal", arg)) :
           LET call == [Call("Normal", 0, "", FALSE, "", correlation)
                          EXCEPT !.params.loc = Some(loc),
                                 !.params.scale = Some(scale)]
           IN IF scale <= 0
              THEN Raise("ValueError", call)
              ELSE BaseInit("Normal", correlation, arg, s, <<"loc", "scale">>,
                            [NoAttrs EXCEPT !.loc = Some(loc),
                                            !.scale = Some(scale)], call)

\* InverseCDF(correlation, func, seed)
NewInverseCDF ==
    /\ ~alive
    /\ \E correlation \in PublicCorrelations, arg \in CtorSeedArgs :
         \E s \in SeedChoices(rng_seed("InverseCDF", arg)) :
           BaseInit("InverseCDF", RawFromPublic(correlation), arg, s, <<>>,
                    NoAttrs,
                    Call("InverseCDF", 0, "", FALSE, "", correlation))

\* Uniform(correlation, low, high, seed)
NewUniform ==
    /\ ~alive
    /\ \E correlation \in PublicCorrelations, low \in BoundArgs,
          high \in BoundArgs, arg \in CtorSeedArgs :
         \E s \in SeedChoices(rng_seed("Uniform", arg)) :
           LET call == [Call("Uniform", 0, "", FALSE, "", correlation)
                          EXCEPT !.params.low = Some(low),
                                 !.params.high = Some(high)]
           IN IF low = high
              THEN Raise("ValueError", call)
              ELSE BaseInit("Uniform", RawFromPublic(correlation), arg, s,
                            <<"low", "high">>,
                            [NoAttrs EXCEPT !.low = Some(min(low, high)),
                                            !.high = Some(max(low, high))],
                            call)

\* Exponential(correlation, loc, scale, rate, seed, corr_for_unif)
NewExponential ==
    /\ ~alive
    /\ \E correlation \in PublicCorrelations, loc \in LocArgs,
          scale \in ScaleArgs, rate \in RateArgs, arg \in CtorSeedArgs,
          corr_for_unif \in BOOLEAN :
         \E s \in SeedChoices(rng_seed("Exponential", arg)) :
           LET call == [Call("Exponential", 0, "", corr_for_unif, "",
                             correlation)
                          EXCEPT !.params.loc = Some(loc),
                                 !.params.scale = Some(scale),
                                 !.params.rate = rate]
               scale1 == EffectiveScale(scale, rate)
               error == Exponential_init_error(scale, rate, corr_for_unif)
           IN IF error # ""
              THEN Raise(error, call)
              ELSE BaseInit("Exponential", RawFromPublic(correlation), arg, s,
                            <<"loc", "scale">>,
                            [NoAttrs EXCEPT !.loc = Some(loc),
                                            !.scale = Some(scale1)], call)

\* write the generator fields g back to the object
Store(g) ==
    /\ raw_correlation' = g.raw_correlation
    /\ seed' = g.seed
    /\ pos' = g.pos
    /\ have' = g.have
    /\ hold' = g.hold

\* g.get_next_raw_normal()
GetNextRawNormal ==
    /\ alive
    /\ work + 1 <= MaxWork
    /\ work' = work + 1
    /\ LET r == get_next_raw_normal(Gen)
       IN /\ Store(r.g)
          /\ ret' = Outcome("scalar", <<r.out>>)
    /\ last' = Call("get_next_raw_normal", 0, "", FALSE, "", 0)
    /\ pre' = Snapshot
    /\ holdState' = IF have THEN "returned" ELSE "fresh"
    /\ run' = IF run = None THEN None ELSE Some(run[1] + 1)
    /\ LET r2 == get_next_raw_normal(twin)
       IN /\ twin' = r2.g
          /\ twin_ret' = Outcome("scalar", <<r2.out>>)
    /\ LET r3 == get_next_raw_normal(fresh)
       IN IF fresh_alive
          THEN /\ fresh' = r3.g
               /\ fresh_ret' = Outcome("scalar", <<r3.out>>)
          ELSE UNCHANGED <<fresh, fresh_ret>>
    /\ UNCHANGED <<alive, cls, distributional_parameter_names, attrs,
                   plain_have, twin_attrs, entropy, fresh_alive, fresh_attrs>>
    /\ UNCHANGED utilvars

\* g.get_sequence_raw_normal(N, method, mix_singles)
GetSequenceRawNormal ==
    /\ alive
    /\ work + 2 <= MaxWork
    /\ work' = work + 2
    /\ \E args \in SequenceArgs :
         LET N == args[1]
             method == args[2]
             mix_singles == args[3]
             r == get_sequence_raw_normal(Gen, N, method, mix_singles)
             r2 == get_sequence_raw_normal(twin, N, method, mix_singles)
             r3 == get_sequence_raw_normal(fresh, N, method, mix_singles)
         IN /\ Store(r.g)
            /\ ret' = Outcome(r.kind, r.out)
            /\ twin' = r2.g
            /\ twin_ret' = Outcome(r2.kind, r2.out)
            /\ IF fresh_alive
               THEN /\ fresh' = r3.g
                    /\ fresh_ret' = Outcome(r3.kind, r3.out)
               ELSE UNCHANGED <<fresh, fresh_ret>>
            /\ last' = Call("get_sequence_raw_normal", N, method,
                            mix_singles, "", 0)
            /\ holdState' = IF r.kind = "ValueError" THEN holdState
                            ELSE IF r.g.pos > pos /\ r.g.have THEN "fresh"
                            ELSE IF have THEN "returned"
                            ELSE holdState
    /\ pre' = Snapshot
    /\ run' = None
    /\ UNCHANGED <<alive, cls, distributional_parameter_names, attrs,
                   plain_have, twin_attrs, entropy, fresh_alive, fresh_attrs>>
    /\ UNCHANGED utilvars

\* g.get_next() on a Normal, InverseCDF, Uniform or Exponential
GetNext ==
    /\ alive
    /\ cls # "AntitheticScalar"
    /\ work + 1 <= MaxWork
    /\ work' = work + 1
    /\ LET r == get_next(cls, attrs, Gen)
           r2 == get_next(cls, twin_attrs, twin)
           r3 == get_next(cls, fresh_attrs, fresh)
       IN /\ Store(r.g)
          /\ ret' = Outcome("scalar", <<r.out>>)
          /\ twin' = r2.g
          /\ twin_ret' = Outcome("scalar", <<r2.out>>)
          /\ IF fresh_alive
             THEN /\ fresh' = r3.g
                  /\ fresh_ret' = Outcome("scalar", <<r3.out>>)
             ELSE UNCHANGED <<fresh, fresh_ret>>
    /\ last' = Call("get_next", 0, "", FALSE, "", 0)
    /\ pre' = Snapshot
    /\ holdState' = IF have THEN "returned" ELSE "fresh"
    /\ run' = IF run = None THEN None ELSE Some(run[1] + 1)
    /\ UNCHANGED <<alive, cls, distributional_parameter_names, attrs,
                   plain_have, twin_attrs, entropy, fresh_alive, fresh_attrs>>
    /\ UNCHANGED utilvars

\* g.get_sequence(N, method, mix_singles) on a Normal, InverseCDF, Uniform
\* or Exponential
GetSequence ==
    /\ alive
    /\ cls # "AntitheticScalar"
    /\ work + 2 <= MaxWork
    /\ work' = work + 2
    /\ \E args \in PublicSequenceArgs :
         LET N == args[1]
             method == args[2]
             mix_singles == args[3]
             r == get_sequence(cls, attrs, Gen, N, method, mix_singles)
             r2 == get_sequence(cls, twin_attrs, twin, N, method,
                                mix_singles)
             r3 == get_sequence(cls, fresh_attrs, fresh, N, method,
                                mix_singles)
         IN /\ Store(r.g)
            /\ ret' = Outcome(r.kind, r.out)
            /\ twin' = r2.g
            /\ twin_ret' = Outcome(r2.kind, r2.out)
            /\ IF fresh_alive
               THEN /\ fresh' = r3.g
                    /\ fresh_ret' = Outcome(r3.kind, r3.out)
               ELSE UNCHANGED <<fresh, fresh_ret>>
            /\ last' = Call("get_sequence", N, method, mix_singles, "", 0)
            /\ holdState' = IF r.kind = "ValueError" THEN holdState
                            ELSE IF r.g.pos > pos /\ r.g.have THEN "fresh"
                            ELSE IF have THEN "returned"
                            ELSE holdState
    /\ pre' = Snapshot
    /\ run' = None
    /\ UNCHANGED <<alive, cls, distributional_parameter_names, attrs,
                   plain_have, twin_attrs, entropy, fresh_alive, fresh_attrs>>
    /\ UNCHANGED utilvars

\* g.set_seed(seed)
SetSeed ==
    /\ alive
    /\ work + 2 <= MaxWork
    /\ work' = work + 2
    /\ \E arg \in SeedArgs :
         \E s \in SeedChoices(rng_seed("set_seed", arg)) :
           /\ Store(set_seed(Gen, s))
           /\ last' = Call("set_seed", 0, "", FALSE, "", s)
           /\ \E s2 \in SeedChoices(rng_seed("set_seed", arg)) :
                twin' = set_seed(twin, s2)
           /\ entropy' = (entropy \/ arg = None)
           /\ IF ConstructorError(cls, attrs) = ""
              THEN /\ fresh_alive' = TRUE
                   /\ fresh' = FreshGen(raw_correlation, s)
                   /\ fresh_attrs' = ConstructorAttrs(cls, attrs)
                   /\ fresh_ret' = Outcome("None", <<>>)
              ELSE /\ fresh_alive' = FALSE
                   /\ fresh' = NoGen
                   /\ fresh_attrs' = NoAttrs
                   /\ fresh_ret' = Outcome(ConstructorError(cls, attrs), <<>>)
    /\ ret' = Outcome("None", <<>>)
    /\ twin_ret' = Outcome("None", <<>>)
    /\ pre' = Snapshot
    /\ holdState' = IF holdState = "fresh" THEN "discarded" ELSE holdState
    /\ run' = Some(0)
    /\ UNCHANGED <<alive, cls, distributional_parameter_names, attrs,
                   plain_have, twin_attrs>>
    /\ UNCHANGED utilvars

\* __setattr__ overwriting the held value when a distributional parameter
\* is assigned
Setattr_overwriting_hold(name, value, call) ==
    /\ work' = work + 2
    /\ run' = None
    /\ last' = call
    /\ pre' = Snapshot
    /\ IF SetattrRejects(name, value)
       THEN /\ ret' = Outcome("ValueError", <<>>)
            /\ twin_ret' = Outcome("ValueError", <<>>)
            /\ fresh_ret' = IF fresh_alive THEN Outcome("ValueError", <<>>)
                            ELSE fresh_ret
            /\ UNCHANGED <<raw_correlation, attrs, plain_have, twin,
                           twin_attrs, fresh, fresh_attrs>>
       ELSE /\ ret' = Outcome("None", <<>>)
            /\ twin_ret' = Outcome("None", <<>>)
            /\ fresh_ret' = IF fresh_alive THEN Outcome("None", <<>>)
                            ELSE fresh_ret
            /\ twin' = IF name = "raw_correlation"
                        THEN [twin EXCEPT !.raw_correlation = value]
                        ELSE twin
            /\ fresh' = IF fresh_alive /\ name = "raw_correlation"
                         THEN [fresh EXCEPT !.raw_correlation = value]
                         ELSE fresh
            /\ fresh_attrs' = IF fresh_alive /\ name # "raw_correlation"
                               THEN [fresh_attrs EXCEPT ![name] = Some(value)]
                               ELSE fresh_attrs
            /\ plain_have' = SetattrPlainHave(
                                name, distributional_parameter_names,
                                plain_have)
            /\ raw_correlation' = IF name = "raw_correlation" THEN value
                                  ELSE raw_correlation
            /\ attrs' = IF name = "raw_correlation" THEN attrs
                        ELSE [attrs EXCEPT ![name] = Some(value)]
            /\ twin_attrs' = IF name = "raw_correlation" THEN twin_attrs
                             ELSE [twin_attrs EXCEPT ![name] = Some(value)]
    /\ hold' = IF name # "raw_correlation" /\ ~SetattrRejects(name, value)
               THEN Some(0) ELSE hold
    /\ UNCHANGED <<alive, cls, seed, pos, distributional_parameter_names,
                   have, holdState, entropy, fresh_alive>>
    /\ UNCHANGED utilvars

\* AntitheticScalar.__setattr__(name, value) on a constructed object
Setattr(name, value, call) ==
    /\ work' = work + 2
    /\ run' = None
    /\ last' = call
    /\ pre' = Snapshot
    /\ IF SetattrRejects(name, value)
       THEN /\ ret' = Outcome("ValueError", <<>>)
            /\ twin_ret' = Outcome("ValueError", <<>>)
            /\ fresh_ret' = IF fresh_alive THEN Outcome("ValueError", <<>>)
                            ELSE fresh_ret
            /\ UNCHANGED <<raw_correlation, attrs, plain_have, twin,
                           twin_attrs, fresh, fresh_attrs>>
       ELSE /\ ret' = Outcome("None", <<>>)
            /\ twin_ret' = Outcome("None", <<>>)
            /\ fresh_ret' = IF fresh_alive THEN Outcome("None", <<>>)
                            ELSE fresh_ret
            /\ twin' = IF name = "raw_correlation"
                        THEN [twin EXCEPT !.raw_correlation = value]
                        ELSE twin
            /\ fresh' = IF fresh_alive /\ name = "raw_correlation"
                         THEN [fresh EXCEPT !.raw_correlation = value]
                         ELSE fresh
            /\ fresh_attrs' = IF fresh_alive /\ name # "raw_correlation"
                               THEN [fresh_attrs EXCEPT ![name] = Some(value)]
                               ELSE fresh_attrs
            /\ plain_have' = SetattrPlainHave(
                                name, distributional_parameter_names,
                                plain_have)
            /\ raw_correlation' = IF name = "raw_correlation" THEN value
                                  ELSE raw_correlation
            /\ attrs' = IF name = "raw_correlation" THEN attrs
                        ELSE [attrs EXCEPT ![name] = Some(value)]
            /\ twin_attrs' = IF name = "raw_correlation" THEN twin_attrs
                             ELSE [twin_attrs EXCEPT ![name] = Some(value)]
    /\ UNCHANGED <<alive, cls, seed, pos, distributional_parameter_names,
                   have, hold, holdState, entropy, fresh_alive>>
    /\ UNCHANGED utilvars

\* g.raw_correlation = value
AssignRawCorrelation ==
    /\ alive
    /\ work + 2 <= MaxWork
    /\ \E value \in RawCorrelations :
         Setattr("raw_correlation", value,
                 Call("setattr", 0, "", FALSE, "raw_correlation", value))

\* g.loc = value, g.scale = value, g.low = value, g.high = value, for the
\* attributes the object's class defines
AssignParameter ==
    /\ alive
    /\ work + 2 <= MaxWork
    /\ \E assignment \in ParameterAssignments :
         LET name == assignment[1]
             value == assignment[2]
         IN /\ attrs[name] # None
            /\ Setattr(name, value,
                       Call("setattr", 0, "", FALSE, name, value))

\* Uniform.change_correlation(new_correlation)
ChangeCorrelation ==
    /\ alive
    /\ cls = "Uniform"
    /\ work + 2 <= MaxWork
    /\ \E new_correlation \in NewCorrelations :
         LET call == Call("change_correlation", 0, "", FALSE, "",
                          new_correlation)
         IN IF ~ValidCorrelation(new_correlation)
            THEN /\ ret' = Outcome("ValueError", <<>>)
                 /\ last' = call
                 /\ pre' = Snapshot
                 /\ work' = work + 2
                 /\ run' = None
                 /\ twin_ret' = Outcome("ValueError", <<>>)
                 /\ fresh_ret' = IF fresh_alive
                                 THEN Outcome("ValueError", <<>>)
                                 ELSE fresh_ret
                 /\ UNCHANGED <<alive, cls, raw_correlation, seed, pos,
                                distributional_parameter_names, attrs, have,
                                hold, plain_have, holdState, twin, twin_attrs,
                                entropy, fresh_alive, fresh, fresh_attrs>>
                 /\ UNCHANGED utilvars
            ELSE Setattr("raw_correlation", RawFromPublic(new_correlation),
                         call)

Next ==
    \/ NewAntitheticScalar
    \/ NewNormal
    \/ NewInverseCDF
    \/ NewUniform
    \/ NewExponential
    \/ GetNextRawNormal
    \/ GetSequenceRawNormal
    \/ SetSeed
    \/ AssignRawCorrelation
    \/ AssignParameter
    \/ ChangeCorrelation
    \/ GetNext
    \/ GetSequence

Spec == Init /\ [][Next]_vars

(***************************************************************************)
(* The correlation utility on its own: the arguments are drawn at the      *)
(* start and the one call applies the function to them.                    *)
(***************************************************************************)
InitCorrelation ==
    /\ alive = FALSE
    /\ cls = ""
    /\ raw_correlation = 0
    /\ seed = 0
    /\ pos = 0
    /\ distributional_parameter_names = <<>>
    /\ attrs = NoAttrs
    /\ have = FALSE
    /\ hold = None
    /\ plain_have = None
    /\ ret = Outcome("", <<>>)
    /\ last = NoCall
    /\ holdState = "none"
    /\ pre = Snapshot
    /\ run = None
    /\ work = 0
    /\ twin = Gen
    /\ twin_attrs = NoAttrs
    /\ twin_ret = ret
    /\ entropy = FALSE
    /\ fresh_alive = FALSE
    /\ fresh = Gen
    /\ fresh_attrs = NoAttrs
    /\ fresh_ret = ret
    /\ x_data \in Arrays
    /\ y_data \in Arrays
    /\ corr = Outcome("", <<>>)

\* antithetic.correlation(x_data, y_data)
Correlation ==
    /\ corr = Outcome("", <<>>)
    /\ LET r == antithetic_correlation(x_data, y_data)
       IN corr' = Outcome(r.kind, r.out)
    /\ UNCHANGED <<x_data, y_data>>
    /\ UNCHANGED objvars

NextCorrelation == Correlation

SpecCorrelation == InitCorrelation /\ [][NextCorrelation]_vars

(***************************************************************************)
(* Properties.                                                             *)
(***************************************************************************)
Constructors == {"AntitheticScalar", "Normal", "InverseCDF", "Uniform",
                 "Exponential"}
Errors == {"ValueError", "NotImplementedError", "ZeroDivisionError"}
IsNext == last.op = "get_next_raw_normal"
IsSequence == last.op = "get_sequence_raw_normal"
SequenceReturned == IsSequence /\ ret.kind \notin Errors
IsRawAssignment == last.op = "setattr" /\ last.name = "raw_correlation"
IsParameterAssignment ==
    last.op = "setattr" /\ last.name \in {"loc", "scale", "low", "high"}
PreGen == [raw_correlation |-> pre.raw_correlation, seed |-> pre.seed,
           pos |-> pre.pos, have |-> pre.have, hold |-> pre.hold]

\* the number of times v occurs in the sequence a
Count(a, v) == Cardinality({i \in DOMAIN a : a[i] = v})
SameMultiset(a, b) ==
    /\ Len(a) = Len(b)
    /\ \A i \in DOMAIN a : Count(a, a[i]) = Count(b, a[i])

\* C1: get_sequence_raw_normal(N, "zip") returns, position by position, the
\* values of N sequential get_next_raw_normal() calls from the same state
\* (for N = 1 the single value of one call).
C1_ZipEqualsSequentialCalls ==
    (SequenceReturned /\ last.method = "zip")
        => ret.out = Sequential(PreGen, last.N).out

C1_Witness ==
    /\ SequenceReturned
    /\ last.method = "zip"
    /\ last.N = MaxN
    /\ pre.have
    /\ pre.pos > 0
    /\ ret.out = Sequential(PreGen, last.N).out
    /\ ret.out # get_sequence_raw_normal(PreGen, last.N, "concatenate",
                                         TRUE).out

\* C2: changing raw_correlation, by assignment or by
\* Uniform.change_correlation, while a value is buffered leaves the buffer
\* flag false.
C2_CorrelationChangeClearsBuffer ==
    ((IsRawAssignment \/ last.op = "change_correlation")
        /\ ret.kind = "None" /\ pre.have)
        => ~have

\* C3: assigning a parameter named in distributional_parameter_names (loc,
\* scale, low, high) after construction leaves the buffer flag false.
C3_ParameterAssignmentClearsBuffer ==
    (IsParameterAssignment
        /\ InNames(last.name, distributional_parameter_names))
        => ~have

\* the members of the first n pairs of the generator in its present state
FirstPairMembers(n) ==
    UNION {{NormalAt(seed, 2 * j),
            Mix(normal2(seed, 2 * j), mixing_weights(raw_correlation))} :
           j \in 0..(n - 1)}

C4_SetSeedStep ==
    /\ last'.op = "set_seed"
         => (~have' /\ pos' = 0 /\ seed' = last'.value)
    /\ (last.op = "set_seed" /\ last'.op = "get_next_raw_normal")
         => ret'.out = <<NormalAt(seed, 0)>>
    /\ (last.op = "set_seed" /\ last'.op = "get_sequence_raw_normal"
          /\ ret'.kind \notin Errors)
         => IF last'.method = "shuffle"
            THEN ret'.out[1] \in FirstPairMembers((last'.N + 1) \div 2)
            ELSE ret'.out[1] = NormalAt(seed, 0)

\* C4 as amended: set_seed replaces the source and clears the flag; the
\* first draw after it is the first member of the first pair of the new
\* source for get_next_raw_normal and for element 0 of a "zip" or
\* "concatenate" sequence, and a member (first or second) of a pair of the
\* new source for element 0 of a "shuffle" sequence.
C4_FirstDrawAfterSetSeed == [][C4_SetSeedStep]_vars

\* C4 as stated: after set_seed, element 0 of every sequence, as the value of
\* get_next_raw_normal, is the first member of a pair of the new source.
C4_Original ==
    [][(last.op = "set_seed"
          /\ last'.op \in {"get_next_raw_normal", "get_sequence_raw_normal"}
          /\ ret'.kind \notin Errors)
         => \E j \in 0..MaxN : ret'.out[1] = NormalAt(seed, 2 * j)]_vars

C4_Witness ==
    /\ SequenceReturned
    /\ last.N >= 2
    /\ pre.holdState = "discarded"
    /\ pre.pos = 0
    /\ ~pre.have
    /\ pre.hold # None
    /\ ret.out[1] # pre.hold[1]

\* C5: in a run of get_next_raw_normal() calls from an empty buffer, after
\* construction or set_seed and with no other call between, call 2k draws
\* the two values at positions 2k and 2k+1 of the source and returns the
\* first, and call 2k+1 returns their mix z_k without consuming the source.
C5_RunOfSingleCalls ==
    (IsNext /\ run # None)
        => LET n == run[1]
               k == (n - 1) \div 2
               pair == normal2(seed, 2 * k)
               z == Mix(pair, mixing_weights(raw_correlation))
           IN IF n % 2 = 1
              THEN /\ ret.out = <<pair[1]>>
                   /\ have
                   /\ hold = Some(z)
                   /\ pre.pos = 2 * k
                   /\ pos = 2 * k + 2
              ELSE /\ ret.out = <<z>>
                   /\ ~have
                   /\ pre.pos = 2 * k + 2
                   /\ pos = 2 * k + 2

C5_Witness ==
    /\ IsNext
    /\ run = Some(4)
    /\ pos = 4
    /\ ret.out = <<Mix(normal2(seed, 2), mixing_weights(raw_correlation))>>

\* C6: after get_sequence_raw_normal(N, method, mix_singles), for every
\* method, the flag and the held value are those N sequential
\* get_next_raw_normal() calls would leave: the flag is true iff N minus the
\* front single is odd, and the held value is then the partner of the back
\* single.
C6_BufferAfterSequence ==
    SequenceReturned
        => LET f == int(pre.have)
               e == Sequential(PreGen, last.N).g
               back == normal2(pre.seed, pre.pos + (last.N - f - 1))
           IN /\ have = e.have
              /\ have <=> ((last.N - f) % 2 = 1)
              /\ have => /\ hold = e.hold
                         /\ hold = Some(Mix(back,
                                      mixing_weights(pre.raw_correlation)))
                         /\ Count(ret.out, back[1]) >= 1

C6_Witness ==
    /\ SequenceReturned
    /\ last.method = "shuffle"
    /\ last.N = 4
    /\ pre.have
    /\ have
    /\ hold # pre.hold

\* C7: for the same starting state, the output of method "concatenate" or
\* "shuffle" is a permutation of the output of method "zip": the same
\* multiset of values.
C7_SameValuesAsZip ==
    (SequenceReturned /\ last.method \in {"concatenate", "shuffle"})
        => SameMultiset(ret.out,
                        get_sequence_raw_normal(PreGen, last.N, "zip",
                                                last.mix_singles).out)

C7_Witness ==
    /\ SequenceReturned
    /\ last.method = "shuffle"
    /\ ~last.mix_singles
    /\ last.N = MaxN
    /\ pre.have
    /\ ret.out # get_sequence_raw_normal(PreGen, last.N, "zip", FALSE).out
    /\ ret.out # get_sequence_raw_normal(PreGen, last.N, "concatenate",
                                         FALSE).out

\* the raw correlation a constructor call hands to AntitheticScalar.__init__
ConstructorRaw ==
    IF last.op \in {"AntitheticScalar", "Normal"} THEN last.value
    ELSE RawFromPublic(last.value)

\* C8: raw_correlation lies in [-1, 1] in every state of a generator;
\* construction, assignment and Uniform.change_correlation with a value that
\* would put it outside raise an error, and a rejected call leaves the stored
\* raw_correlation as it was.
C8_RawCorrelationInRange ==
    /\ alive => ValidCorrelation(raw_correlation)
    /\ IsRawAssignment
         => (ret.kind = "ValueError" <=> ~ValidCorrelation(last.value))
    /\ (last.op = "change_correlation"
          /\ ~ValidCorrelation(RawFromPublic(last.value)))
         => ret.kind = "ValueError"
    /\ ((IsRawAssignment \/ last.op = "change_correlation")
          /\ ret.kind = "ValueError")
         => (alive /\ raw_correlation = pre.raw_correlation)
    /\ (last.op \in Constructors /\ ~ValidCorrelation(ConstructorRaw))
         => (~alive /\ ret.kind \in Errors)

C8_Witness ==
    /\ IsRawAssignment
    /\ ~ValidCorrelation(last.value)
    /\ ret.kind = "ValueError"
    /\ raw_correlation = pre.raw_correlation
    /\ pre.have

\* C9 as amended: the flag is false after construction and true exactly
\* while hold is the second member of a pair whose first member has been
\* delivered and which has neither been delivered itself nor been discarded
\* by set_seed; a draw delivers the held value only in that case.
C9_FlagIffUndeliveredPartner ==
    alive
        => /\ have <=> holdState = "fresh"
           /\ have => hold # None
           /\ (last.op \in Constructors) => ~have
           /\ ((IsNext \/ SequenceReturned) /\ pre.have)
                => (pre.holdState = "fresh" /\ Count(ret.out, pre.hold[1]) >= 1)
           /\ ((IsNext \/ SequenceReturned) /\ pre.have /\ have)
                => pos > pre.pos

\* C9 as stated: the flag is true exactly after the first member of a pair
\* has been delivered and its second member has not.
C9_Original ==
    alive => (have <=> holdState \in {"fresh", "discarded"})

C9_Witness ==
    /\ IsNext
    /\ pre.have
    /\ pre.holdState = "fresh"
    /\ ~have
    /\ holdState = "returned"
    /\ ret.out = pre.hold

\* C10: get_sequence_raw_normal, and get_sequence of Normal, InverseCDF,
\* Uniform and Exponential, raise ValueError exactly when N <= 0 or the
\* method is none of "zip", "shuffle", "concatenate".
C10_SequenceArgumentErrors ==
    last.op \in {"get_sequence_raw_normal", "get_sequence"}
        => /\ ret.kind = "ValueError"
                <=> (last.N <= 0 \/ last.method \notin Methods)
           /\ ret.kind \in {"ValueError", "scalar", "array"}
           /\ ret.kind = "array" => Len(ret.out) = last.N
           /\ ret.kind = "scalar" => last.N = 1

C10_Witness ==
    /\ last.op = "get_sequence"
    /\ cls = "Exponential"
    /\ last.N = 0
    /\ last.method \in Methods
    /\ ret.kind = "ValueError"
    /\ pre.have

Variants == {"Normal", "InverseCDF", "Uniform", "Exponential"}
IsPublicDraw == last.op \in {"get_next", "get_sequence"} /\ ret.kind \notin Errors
\* the exceptions the package raises for an invalid configuration
InvalidConfiguration == {"ValueError", "NotImplementedError"}

\* C11: constructing Normal, InverseCDF, Uniform or Exponential with a
\* public correlation outside [-1, 1] raises an error and yields no
\* generator.
C11_OutOfRangeCorrelationRejected ==
    (last.op \in Variants /\ ~ValidCorrelation(last.value))
        => (~alive /\ ret.kind \in Errors)

\* C12: every value returned by get_next() or get_sequence() of a Uniform
\* lies in [low, high) for the low and high the object has at the call.
C12_UniformWithinBounds ==
    (IsPublicDraw /\ cls = "Uniform")
        => \A i \in DOMAIN ret.out :
             attrs.low[1] <= ret.out[i] /\ ret.out[i] < attrs.high[1]

\* C13: every value returned by get_next() or get_sequence() of an
\* Exponential is at least the loc the object has at the call.
C13_ExponentialAtLeastLoc ==
    (IsPublicDraw /\ cls = "Exponential")
        => \A i \in DOMAIN ret.out : attrs.loc[1] <= ret.out[i]

\* C14: Normal and Exponential construction raises the invalid-configuration
\* error whenever the effective scale (1/rate when rate is given, else
\* scale) is not > 0, and otherwise, the other arguments being valid,
\* succeeds and stores the effective scale.
C14_ScaleChecked ==
    (last.op \in {"Normal", "Exponential"})
        => LET rate == last.params.rate
               defined == rate = None \/ rate[1] # 0
               positive == defined
                           /\ EffectiveScale(last.params.scale[1], rate) > 0
               rest_valid == /\ ValidCorrelation(ConstructorRaw)
                             /\ (last.op = "Exponential" => last.mix_singles)
           IN /\ ~positive => (~alive /\ ret.kind \in InvalidConfiguration)
              /\ (positive /\ rest_valid)
                   => /\ alive
                      /\ attrs.scale
                           = Some(EffectiveScale(last.params.scale[1], rate))

\* C15: given a correlation in [-1, 1], Uniform construction raises
\* ValueError iff low = high, and otherwise stores the smaller bound as low
\* and the larger as high, so that low < high.
C15_UniformBounds ==
    (last.op = "Uniform" /\ ValidCorrelation(last.value))
        => LET low == last.params.low[1]
               high == last.params.high[1]
           IN /\ (ret.kind = "ValueError") <=> (low = high)
              /\ (low # high)
                   => /\ alive
                      /\ cls = "Uniform"
                      /\ attrs.low = Some(IF low < high THEN low ELSE high)
                      /\ attrs.high = Some(IF low < high THEN high ELSE low)
                      /\ attrs.low[1] < attrs.high[1]
              /\ (low = high) => ~alive

C15_Witness ==
    /\ last.op = "Uniform"
    /\ ValidCorrelation(last.value)
    /\ last.params.low[1] > last.params.high[1]
    /\ alive
    /\ attrs.low = last.params.high
    /\ attrs.high = last.params.low

\* C16: Exponential(..., corr_for_unif = False) raises NotImplementedError
\* whatever the other arguments are, and yields no generator.
C16_DirectCorrelationUnsupported ==
    (last.op = "Exponential" /\ ~last.mix_singles)
        => (ret.kind = "NotImplementedError" /\ ~alive)

C16_Witness ==
    /\ last.op = "Exponential"
    /\ ~last.mix_singles
    /\ last.params.rate = None
    /\ last.params.scale = Some(0)
    /\ ~ValidCorrelation(last.value)
    /\ ret.kind = "NotImplementedError"
    /\ ~alive

C18_CorrelationRoundTrip ==
    (alive /\ cls = "Uniform" /\ last.op \in {"Uniform", "change_correlation"}
       /\ ValidCorrelation(last.value))
        => /\ ret.kind \notin Errors
           /\ raw_correlation = RawFromPublic(last.value)
           /\ Uniform_correlation(raw_correlation) = last.value

C18_Witness ==
    /\ alive
    /\ last.op = "change_correlation"
    /\ last.value = -(Scale \div 2)
    /\ pre.raw_correlation # raw_correlation
    /\ raw_correlation # last.value
    /\ Uniform_correlation(raw_correlation) = last.value

\* C19: correlation(x, y) raises ValueError iff the flattened sizes differ;
\* for equal sizes it returns the Pearson correlation, a value in [-1, 1]:
\* 1 for data increasing together, as [1,2,3] with itself, and -1 for
\* [1,2,3] with [3,2,1].
C19_CorrelationUtility ==
    (corr.kind # "")
        => LET x == Flat(x_data)
               y == Flat(y_data)
           IN /\ (corr.kind = "ValueError") <=> (Len(x) # Len(y))
              /\ corr.kind \in {"ValueError", "scalar", "nan"}
              /\ corr.kind = "scalar"
                   => (-Scale <= corr.out[1] /\ corr.out[1] <= Scale)
              /\ (x = y /\ \E i, j \in DOMAIN x : x[i] # x[j])
                   => corr.out = <<Scale>>
              /\ (x = <<1, 2, 3>> /\ y = <<3, 2, 1>>) => corr.out = <<-Scale>>

C19_Witness ==
    /\ x_data = <<<<1, 2, 3>>>>
    /\ y_data = <<<<3, 2, 1>>>>
    /\ corr = Outcome("scalar", <<-Scale>>)

\* items handed to generator.permutation by a successful
\* get_sequence_raw_normal call that began with front single f: all N with
\* mix_singles, the interior ones without; none unless the method is
\* "shuffle" and N >= 2
Permuted(N, f, method, mix_singles) ==
    IF method # "shuffle" \/ N = 1 THEN 0
    ELSE IF mix_singles THEN N
    ELSE N - f - ((N - f) % 2)

LastF == int(pre.have)
LastB == (last.N - LastF) % 2
LastM == last.N - LastF - LastB
\* first and second member of the k-th interior pair of that call, k >= 1
LastFirst(k) == NormalAt(pre.seed, pre.pos + 2 * (k - 1))
LastSecond(k) ==
    Mix(normal2(pre.seed, pre.pos + 2 * (k - 1)),
        mixing_weights(pre.raw_correlation))
\* the first member of the pair drawn for the back single
LastBackSingle == NormalAt(pre.seed, pre.pos + LastM)

\* C21: with method "concatenate" and N >= 2 the output holds the front
\* single (if a value was buffered) at position 0, then the first members of
\* the M/2 interior pairs in draw order, then their second members in the
\* same order, and the back single (if N - f is odd) at position N-1.
C21_ConcatenateLayout ==
    (SequenceReturned /\ last.method = "concatenate" /\ last.N >= 2)
        => LET K == LastM \div 2
           IN /\ Len(ret.out) = last.N
              /\ LastF = 1 => ret.out[1] = pre.hold[1]
              /\ LastB = 1 => ret.out[last.N] = LastBackSingle
              /\ \A k \in 1..K :
                   /\ ret.out[LastF + k] = LastFirst(k)
                   /\ ret.out[LastF + K + k] = LastSecond(k)

C21_Witness ==
    /\ SequenceReturned
    /\ last.method = "concatenate"
    /\ last.N = MaxN
    /\ ~last.mix_singles
    /\ pre.have
    /\ ret.out[1] = pre.hold[1]
    /\ ret.out[2] = LastFirst(1)
    /\ ret.out[3] = LastFirst(2)
    /\ ret.out[4] = LastSecond(1)
    /\ LastFirst(2) # LastSecond(1)

\* the values of the K interior pairs, as one sequence
LastInterior(K) ==
    [i \in 1..(2 * K) |->
        IF i <= K THEN LastFirst(i) ELSE LastSecond(i - K)]
\* C22: with method "shuffle" and mix_singles = False the front single stays
\* at position 0, the back single at position N-1, and the positions between
\* hold a rearrangement of the interior pair values; with mix_singles = True
\* the output is a rearrangement of all N values, singles included.
C22_ShuffleKeepsSingles ==
    (SequenceReturned /\ last.method = "shuffle" /\ last.N >= 2)
        => LET K == LastM \div 2
               front == IF LastF = 1 THEN <<pre.hold[1]>> ELSE <<>>
               back == IF LastB = 1 THEN <<LastBackSingle>> ELSE <<>>
           IN IF last.mix_singles
              THEN SameMultiset(ret.out, front \o LastInterior(K) \o back)
              ELSE /\ LastF = 1 => ret.out[1] = pre.hold[1]
                   /\ LastB = 1 => ret.out[last.N] = LastBackSingle
                   /\ SameMultiset(
                        SubSeq(ret.out, LastF + 1, last.N - LastB),
                        LastInterior(K))

\* a shuffle that kept the singles and moved interior values
C22_Witness ==
    /\ SequenceReturned
    /\ last.method = "shuffle"
    /\ ~last.mix_singles
    /\ last.N = 4
    /\ pre.have
    /\ ret.out[1] = pre.hold[1]
    /\ ret.out[4] = LastBackSingle
    /\ ret.out[2] = LastSecond(1)
    /\ ret.out[3] = LastFirst(1)
    /\ LastFirst(1) # LastSecond(1)
    /\ get_sequence_raw_normal(PreGen, 4, "shuffle", TRUE).out[1]
         # pre.hold[1]

\* C23: assigning loc, scale, low or high, in particular between the two
\* draws of a pair, leaves the held raw value and the random source as they
\* were.
C23_AssignmentKeepsHeldValue ==
    IsParameterAssignment
        => /\ hold = pre.hold
           /\ seed = pre.seed
           /\ pos = pre.pos
           /\ raw_correlation = pre.raw_correlation
           /\ attrs[last.name] = Some(last.value)

C23_Witness ==
    /\ IsParameterAssignment
    /\ last.name = "scale"
    /\ pre.have
    /\ pre.holdState = "fresh"
    /\ pre.pos > 0
    /\ hold = pre.hold
    /\ hold # None
    /\ attrs.scale # pre.attrs.scale

\* C24: a call that raises ValueError, get_sequence_raw_normal for N <= 0 or
\* an unrecognized method or a rejected assignment to raw_correlation,
\* leaves the source, the flag, the held value and the parameters as they
\* were.
C24_FailedCallLeavesState ==
    ((IsSequence \/ IsRawAssignment) /\ ret.kind = "ValueError")
        => /\ alive
           /\ Gen = PreGen
           /\ attrs = pre.attrs
           /\ plain_have = pre.plain_have

C24_Witness ==
    /\ IsSequence
    /\ last.method = "bogus"
    /\ ret.kind = "ValueError"
    /\ pre.have
    /\ pre.pos > 0
    /\ have
    /\ hold = pre.hold
    /\ pos = pre.pos

\* a call that draws returned
IsDraw ==
    /\ last.op \in {"get_next_raw_normal", "get_sequence_raw_normal",
                    "get_next", "get_sequence"}
    /\ ret.kind \notin Errors

\* C25: from set_seed(s) with an integer s on, every draw returns what it
\* returns on an object newly constructed with seed s and the parameters in
\* place at the set_seed, and given the same calls.
C25_ReseedEqualsFresh ==
    (alive /\ ~entropy /\ fresh_alive /\ IsDraw) => fresh_ret = ret

\* Where the constructor stored the parameters in place as they were, the
\* newly constructed object and the reseeded one agree in every draw, in the
\* source, the flag and the held value in use; they differ at most in a held
\* value whose flag is false.
ReseedEqualsFreshStoredUnchanged ==
    (alive /\ ~entropy /\ fresh_alive /\ fresh_attrs = attrs)
        => /\ IsDraw => fresh_ret = ret
           /\ fresh.seed = seed
           /\ fresh.pos = pos
           /\ fresh.have = have
           /\ fresh.raw_correlation = raw_correlation
           /\ have => fresh.hold = hold
           /\ last.op = "set_seed"
                => (pos = 0 /\ ~have /\ seed = last.value
                    /\ fresh = FreshGen(raw_correlation, last.value))

====
